---- MODULE Spec2Model ----
(***************************************************************************)
(* MONAI Application Runner (src/monai/deploy/runner/main.py).             *)
(*                                                                         *)
(* One launcher invocation: parse_args, dependency_verification,           *)
(* fetch_map_manifest (a container run that exports app.json and pkg.json  *)
(* into a temporary directory) and run_app (the application container      *)
(* run).  The container runtime, the host's search path and the files the  *)
(* package image writes are the environment: their outcomes are chosen     *)
(* nondeterministically when the launcher observes them.                   *)
(***************************************************************************)
EXTENDS Integers, Sequences, FiniteSets, TLC

VARIABLES
    pc,          \* the position of main()
    args,        \* the namespace returned by parse_args
    env,         \* what the launcher observed of the host and the containers
    dv_ret,      \* the return of dependency_verification: "unset", "True", "False"
    info_dir,    \* the temporary directory of fetch_map_manifest (0: none)
    next_tmp,    \* the next fresh temporary directory name
    host,        \* the temporary directories on the host and their files
    app_info,    \* the application manifest held by main()
    returncode,  \* main()'s returncode variable
    fetch_ret,   \* the return code returned by fetch_map_manifest
    entered,     \* the functions main() has called, in order
    calls,       \* the external invocations made, in order
    reads,       \* the files read_text() was attempted on, in order
    inflight,    \* the container runs that have started and not yet returned
    log,         \* the records emitted through logging
    exc,         \* the uncaught exception that ended the process ("" if none)
    outcome,     \* how the process ended ("running" while it has not)
    exitStatus   \* the exit status of the process (Unset while running)

vars == <<pc, args, env, dv_ret, info_dir, next_tmp, host, app_info, returncode,
          fetch_ret, entered, calls, reads, inflight, log, exc, outcome, exitStatus>>

\* ---------------------------------------------------------------- bounds
\* Container return codes range over 0..MaxReturnCode.
MaxReturnCode == 2

ReturnCodes == 0..MaxReturnCode

\* fetch_map_manifest is called up to MaxFetchCalls times in sequence.
MaxFetchCalls == 2

\* ------------------------------------------------------ process exit status
Unset == -1
\* sys.exit() without an argument raises SystemExit(None): exit status 0.
SysExitNoArg == 0
\* main() returning normally ends the interpreter with status 0.
NormalExit == 0
\* an exception that propagates out of main() ends the interpreter with 1.
UncaughtException == 1
\* argparse reports an invalid argument and exits with status 2.
ArgparseError == 2

\* ------------------------------------------------------------- JSON values
\* A parsed JSON value: a string or an object (a dict from keys to values).
Str(s) == [t |-> "str", s |-> s, m |-> <<>>]
Obj(m) == [t |-> "obj", s |-> "", m |-> m]
EmptyDict == Obj(<<>>)

Punct == {"{", "}", ":", ","}

ParseFail == [ok |-> FALSE, val |-> EmptyDict, next |-> 0]

\* dict[k] = v, a later duplicate key replacing an earlier one
Put(m, k, v) == [x \in (DOMAIN m) \cup {k} |-> IF x = k THEN v ELSE m[x]]

RECURSIVE ParseValue(_, _), ParseMembers(_, _, _)
\* value := STRING | "{" "}" | "{" members "}"
ParseValue(t, i) ==
    IF i > Len(t) THEN ParseFail
    ELSE IF t[i] = "{"
         THEN IF i + 1 <= Len(t) /\ t[i + 1] = "}"
              THEN [ok |-> TRUE, val |-> EmptyDict, next |-> i + 2]
              ELSE ParseMembers(t, i + 1, <<>>)
    ELSE IF t[i] \in Punct THEN ParseFail
    ELSE [ok |-> TRUE, val |-> Str(t[i]), next |-> i + 1]

\* members := STRING ":" value ( "," members )? , closed by "}"
ParseMembers(t, i, acc) ==
    IF i + 1 > Len(t) \/ t[i] \in Punct \/ t[i + 1] # ":" THEN ParseFail
    ELSE LET r == ParseValue(t, i + 2) IN
         IF ~r.ok \/ r.next > Len(t) THEN ParseFail
         ELSE LET acc2 == Put(acc, t[i], r.val) IN
              IF t[r.next] = "}" THEN [ok |-> TRUE, val |-> Obj(acc2), next |-> r.next + 1]
              ELSE IF t[r.next] = "," THEN ParseMembers(t, r.next + 1, acc2)
              ELSE ParseFail

\* json.loads(text): the value, or JSONDecodeError (ok = FALSE) on malformed
\* text or on data after the value.
json_loads(t) ==
    LET r == ParseValue(t, 1) IN
    IF r.ok /\ r.next = Len(t) + 1 THEN [ok |-> TRUE, val |-> r.val]
    ELSE [ok |-> FALSE, val |-> EmptyDict]

\* v[k] in Python: KeyError on a dict without k, TypeError on a str.
GetItem(v, k) ==
    IF v.t # "obj" THEN [exc |-> "TypeError", val |-> EmptyDict]
    ELSE IF k \notin DOMAIN v.m THEN [exc |-> "KeyError", val |-> EmptyDict]
    ELSE [exc |-> "", val |-> v.m[k]]

\* str.format() of a value: a str is inserted as it is, a dict by its repr.
py_str(v) == IF v.t = "str" THEN v.s ELSE "<dict>"

\* ------------------------------------------------------------ environment
\* Package references given on the command line.
Images == {"map:a", "map:b"}

\* Directories that exist on the host, and the paths a caller may pass.
HostDirs == {"/host/in", "/host/out"}
PathArgs == HostDirs \cup {"/host/file.txt", "/missing"}

\* The texts (as token sequences) the package image may write as app.json.
DocScenarioA ==
    <<"{", "input", ":", "{", "path", ":", "/in", "}", ",",
           "output", ":", "{", "path", ":", "/out", "}", "}">>
DocOutputFirst ==
    <<"{", "output", ":", "{", "path", ":", "/var/out", "}", ",",
           "input", ":", "{", "path", ":", "/var/in", "}", "}">>
DocNoOutput == <<"{", "input", ":", "{", "path", ":", "/in", "}", "}">>
DocNoInputPath ==
    <<"{", "input", ":", "{", "}", ",", "output", ":", "{", "path", ":", "/out", "}", "}">>
DocNoInput == <<"{", "output", ":", "{", "path", ":", "/out", "}", "}">>
DocInputIsString ==
    <<"{", "input", ":", "/in", ",", "output", ":", "{", "path", ":", "/out", "}", "}">>
DocPathIsObject ==
    <<"{", "input", ":", "{", "path", ":", "{", "}", "}", ",",
           "output", ":", "{", "path", ":", "/out", "}", "}">>
DocEmptyObject == <<"{", "}">>
DocTruncated == <<"{", "input", ":", "{", "path", ":", "/in", "}", ",">>
DocExtraData == DocScenarioA \o <<"}">>
DocEmptyText == <<>>

AppJsonTexts ==
    {DocScenarioA, DocOutputFirst, DocNoOutput, DocNoInputPath, DocNoInput,
     DocInputIsString, DocPathIsObject, DocEmptyObject, DocTruncated,
     DocExtraData, DocEmptyText}

PkgJsonTexts == {<<"{", "}">>, DocTruncated}

\* A file of the export directory: absent, or present with its text.
NoFile == [exists |-> FALSE, text |-> <<>>]
File(text) == [exists |-> TRUE, text |-> text]

AppJsonFiles == {NoFile} \cup {File(t) : t \in AppJsonTexts}
PkgJsonFiles == {NoFile} \cup {File(t) : t \in PkgJsonTexts}

EmptyDir == [app |-> NoFile, pkg |-> NoFile]

\* ------------------------------------------------------------------ utils
\* valid_dir_path(path): the path when it is an existing directory, an
\* argument error otherwise.
valid_dir_path(p) == p \in HostDirs

\* set_up_logging(verbose): DEBUG records are emitted only in verbose mode.
Emitted(verbose, records) ==
    SelectSeq(records, LAMBDA r : r.level # "DEBUG" \/ verbose)

\* run_cmd(cmd): blocks until the process ends and returns its return code.
run_cmd(exit_code) == exit_code

\* run_cmd_quietly(cmd, waiting_msg): the same with the output suppressed.
run_cmd_quietly(exit_code) == exit_code

\* A logging record.
Rec(level, text, arg) == [level |-> level, text |-> text, arg |-> arg]

\* An external invocation: the operation, the function that made it, the
\* image and the volume bindings <<host path, container path>>.
Call(op, by, image, volumes) ==
    [op |-> op, by |-> by, image |-> image, volumes |-> volumes]

\* ------------------------------------------------- dependency_verification
\* dependency_verification without the early return on a missing docker:
\* the image check is made whatever shutil.which("docker") says.
dependency_verification_no_early_return(map_name, which_docker, image_ok) ==
    LET which == Call("which", "dependency_verification", "", <<>>)
        image == Call("verify_image", "dependency_verification", map_name, <<>>)
    IN  [ret |-> which_docker /\ image_ok, calls |-> <<which, image>>,
         log |-> IF which_docker /\ image_ok THEN <<>>
                 ELSE <<Rec("ERROR", "ERROR: Unable to fetch required image.", "")>>]

\* dependency_verification that makes the image check and drops its result.
dependency_verification_image_unchecked(map_name, which_docker, image_ok) ==
    LET which == Call("which", "dependency_verification", "", <<>>)
        image == Call("verify_image", "dependency_verification", map_name, <<>>)
    IN  IF ~which_docker
        THEN [ret |-> FALSE, calls |-> <<which>>,
              log |-> <<Rec("ERROR", "ERROR: docker not installed, please install docker.", "docker")>>]
        ELSE [ret |-> TRUE, calls |-> <<which, image>>, log |-> <<>>]

\* The result of dependency_verification(map_name) on a host where
\* shutil.which("docker") is which_docker and verify_image(map_name) is
\* image_ok: the return value, the external checks made and the records logged.
dependency_verification(map_name, which_docker, image_ok) ==
    LET which == Call("which", "dependency_verification", "", <<>>)
        image == Call("verify_image", "dependency_verification", map_name, <<>>)
        l1 == <<Rec("INFO", "Checking dependencies...", ""),
                Rec("INFO", "--> Verifying if docker is installed...", "docker")>>
        l2 == <<Rec("INFO", "--> Verifying if image is available...", map_name)>>
    IN  IF ~which_docker
        THEN [ret |-> FALSE, calls |-> <<which>>,
              log |-> l1 \o <<Rec("ERROR", "ERROR: docker not installed, please install docker.", "docker")>>]
        ELSE IF ~image_ok
        THEN [ret |-> FALSE, calls |-> <<which, image>>,
              log |-> l1 \o l2 \o <<Rec("ERROR", "ERROR: Unable to fetch required image.", "")>>]
        ELSE [ret |-> TRUE, calls |-> <<which, image>>, log |-> l1 \o l2]

\* ------------------------------------------------------ fetch_map_manifest
\* The container path the export directory is bound to.
ExportConfigPath == "/var/run/monai/export/config"

\* tempfile.TemporaryDirectory() names: fresh on every call.
TmpNames == <<"/tmp/tmp_a", "/tmp/tmp_b", "/tmp/tmp_c">>

\* A directory made with mkdtemp and removed only on the normal return.
TemporaryDirectory_exit_leaks_on_raise(h, d, raised) ==
    IF raised THEN h ELSE [x \in (DOMAIN h) \ {d} |-> h[x]]

\* Leaving the with-block: the directory and its files are removed, on a
\* return and on an exception alike.
TemporaryDirectory_exit(h, d, raised) == [x \in (DOMAIN h) \ {d} |-> h[x]]

\* fetch_map_manifest without the early return on a non-zero return code:
\* the files are read and parsed whatever the run returned.
fetch_after_run_no_early_return(rc, dir) ==
    LET none == [exc |-> "", app_info |-> EmptyDict, returncode |-> rc,
                 reads |-> <<>>, log |-> <<>>]
    IN  IF ~dir.app.exists
        THEN [none EXCEPT !.exc = "FileNotFoundError", !.reads = <<"app.json">>]
        ELSE IF ~dir.pkg.exists
        THEN [none EXCEPT !.exc = "FileNotFoundError",
                          !.reads = <<"app.json", "pkg.json">>]
        ELSE LET p == json_loads(dir.app.text) IN
             IF ~p.ok
             THEN [none EXCEPT !.exc = "JSONDecodeError",
                               !.reads = <<"app.json", "pkg.json", "app.json">>]
             ELSE [none EXCEPT !.app_info = p.val,
                               !.reads = <<"app.json", "pkg.json", "app.json">>]

\* fetch_map_manifest that does not read pkg.json, which it only logs.
fetch_after_run_pkg_unread(rc, dir) ==
    LET none == [exc |-> "", app_info |-> EmptyDict, returncode |-> rc,
                 reads |-> <<>>, log |-> <<>>]
        l1 == <<Rec("DEBUG", "application manifest", "app.json")>>
    IN  IF rc # 0 THEN none
        ELSE IF ~dir.app.exists
        THEN [none EXCEPT !.exc = "FileNotFoundError", !.reads = <<"app.json">>]
        ELSE LET p == json_loads(dir.app.text) IN
             IF ~p.ok
             THEN [none EXCEPT !.exc = "JSONDecodeError",
                               !.reads = <<"app.json", "app.json">>, !.log = l1]
             ELSE [none EXCEPT !.app_info = p.val,
                               !.reads = <<"app.json", "app.json">>, !.log = l1]

\* fetch_map_manifest after run_cmd returned rc, with dir the files of the
\* export directory: the exception raised ("" if none), the returned pair,
\* the files read_text() was attempted on, and the records logged.
fetch_after_run(rc, dir) ==
    LET none == [exc |-> "", app_info |-> EmptyDict, returncode |-> rc,
                 reads |-> <<>>, log |-> <<>>]
        l1 == <<Rec("DEBUG", "application manifest", "app.json")>>
        l2 == <<Rec("DEBUG", "package manifest", "pkg.json")>>
    IN  IF rc # 0 THEN none
        ELSE IF ~dir.app.exists
        THEN [none EXCEPT !.exc = "FileNotFoundError", !.reads = <<"app.json">>]
        ELSE IF ~dir.pkg.exists
        THEN [none EXCEPT !.exc = "FileNotFoundError",
                          !.reads = <<"app.json", "pkg.json">>, !.log = l1]
        ELSE LET p == json_loads(dir.app.text) IN
             IF ~p.ok
             THEN [none EXCEPT !.exc = "JSONDecodeError",
                               !.reads = <<"app.json", "pkg.json", "app.json">>,
                               !.log = l1 \o l2]
             ELSE [none EXCEPT !.app_info = p.val,
                               !.reads = <<"app.json", "pkg.json", "app.json">>,
                               !.log = l1 \o l2]

\* ----------------------------------------------------------------- run_app
NoCmd == Call("", "", "", <<>>)

\* run_app with the two container paths exchanged.
run_app_cmd_swapped(map_name, input_dir, output_dir, info, quiet) ==
    LET i  == GetItem(info, "input")
        ip == GetItem(i.val, "path")
        o  == GetItem(info, "output")
        op == GetItem(o.val, "path")
    IN  IF i.exc # "" THEN [exc |-> i.exc, cmd |-> NoCmd]
        ELSE IF ip.exc # "" THEN [exc |-> ip.exc, cmd |-> NoCmd]
        ELSE IF o.exc # "" THEN [exc |-> o.exc, cmd |-> NoCmd]
        ELSE IF op.exc # "" THEN [exc |-> op.exc, cmd |-> NoCmd]
        ELSE [exc |-> "",
              cmd |-> Call(IF quiet THEN "run_cmd_quietly" ELSE "run_cmd", "run_app",
                           map_name,
                           << <<input_dir, py_str(op.val)>>,
                              <<output_dir, py_str(ip.val)>> >>)]

\* The command run_app builds: the exception raised by the manifest lookups
\* ("" if none) and the run invocation.
run_app_cmd(map_name, input_dir, output_dir, info, quiet) ==
    LET i  == GetItem(info, "input")
        ip == GetItem(i.val, "path")
        o  == GetItem(info, "output")
        op == GetItem(o.val, "path")
    IN  IF i.exc # "" THEN [exc |-> i.exc, cmd |-> NoCmd]
        ELSE IF ip.exc # "" THEN [exc |-> ip.exc, cmd |-> NoCmd]
        ELSE IF o.exc # "" THEN [exc |-> o.exc, cmd |-> NoCmd]
        ELSE IF op.exc # "" THEN [exc |-> op.exc, cmd |-> NoCmd]
        ELSE [exc |-> "",
              cmd |-> Call(IF quiet THEN "run_cmd_quietly" ELSE "run_cmd", "run_app",
                           map_name,
                           << <<input_dir, py_str(ip.val)>>,
                              <<output_dir, py_str(op.val)>> >>)]

\* run_app that loses the return code of the quiet run.
run_app_returncode_quiet_lost(quiet, exit_code) ==
    IF quiet THEN 0 ELSE run_cmd(exit_code)

\* The value run_app returns when the container exits with exit_code.
run_app_returncode(quiet, exit_code) ==
    IF quiet THEN run_cmd_quietly(exit_code) ELSE run_cmd(exit_code)

\* -------------------------------------------------------------------- main
\* main() without the exit after a failed dependency_verification.
main_after_dependency_verification_no_exit(ok) == "continue"

\* main() after dependency_verification returned ok.
main_after_dependency_verification(ok) == IF ~ok THEN "abort" ELSE "continue"

\* main() after fetch_map_manifest returned rc.
main_after_fetch(rc) == IF rc # 0 THEN "abort" ELSE "continue"

\* main() after run_app returned rc.
main_after_run_app(rc) == IF rc # 0 THEN "abort" ELSE "continue"

NoArgs == [map |-> "", input_dir |-> "", output_dir |-> "",
           verbose |-> FALSE, quiet |-> FALSE]

NoEnv == [argv |-> <<>>, docker |-> "unset", image |-> "unset",
          manifest_exit |-> Unset, files |-> EmptyDir, app_exit |-> Unset]

Init ==
    /\ pc = "parse_args"
    /\ args = NoArgs
    /\ env = NoEnv
    /\ dv_ret = "unset"
    /\ info_dir = ""
    /\ next_tmp = 1
    /\ host = <<>>
    /\ app_info = EmptyDict
    /\ returncode = Unset
    /\ fetch_ret = Unset
    /\ entered = <<>>
    /\ calls = <<>>
    /\ reads = <<>>
    /\ inflight = {}
    /\ log = <<>>
    /\ exc = ""
    /\ outcome = "running"
    /\ exitStatus = Unset

\* parse_args with type=valid_dir_path left out of the output_dir argument.
parse_args_accepts_output_unchecked(i, o) == valid_dir_path(i)

\* parse_args accepts the two directory arguments: both are converted by
\* valid_dir_path, and a failed conversion is an argument error.
parse_args_accepts(i, o) == valid_dir_path(i) /\ valid_dir_path(o)

\* args = parse_args(sys.argv[1:]); set_up_logging(args.verbose)
ParseArgs ==
    /\ pc = "parse_args"
    /\ \E m \in Images, i \in PathArgs, o \in PathArgs, v \in BOOLEAN, q \in BOOLEAN :
        /\ entered' = Append(entered, "parse_args")
        /\ env' = [env EXCEPT !.argv = <<m, i, o>>]
        /\ IF parse_args_accepts(i, o)
           THEN /\ args' = [map |-> m, input_dir |-> i, output_dir |-> o,
                            verbose |-> v, quiet |-> q]
                /\ pc' = "dependency_verification"
                /\ UNCHANGED <<log, outcome, exitStatus>>
           ELSE /\ pc' = "exited"
                /\ log' = Append(log, Rec("USAGE", "run: error: argument",
                                          IF valid_dir_path(i) THEN o ELSE i))
                /\ outcome' = "usage_error"
                /\ exitStatus' = ArgparseError
                /\ UNCHANGED args
    /\ UNCHANGED <<dv_ret, info_dir, next_tmp, host, app_info, returncode,
                   fetch_ret, calls, reads, inflight, exc>>

\* if not dependency_verification(args.map): logging.error(...); sys.exit()
DependencyVerification ==
    /\ pc = "dependency_verification"
    /\ \E d \in BOOLEAN, im \in BOOLEAN :
        LET r == dependency_verification(args.map, d, im)
            l == Emitted(args.verbose, r.log)
        IN  /\ env' = [env EXCEPT !.docker = IF d THEN "yes" ELSE "no",
                                  !.image = IF im THEN "yes" ELSE "no"]
            /\ entered' = Append(entered, "dependency_verification")
            /\ calls' = calls \o r.calls
            /\ dv_ret' = IF r.ret THEN "True" ELSE "False"
            /\ IF main_after_dependency_verification(r.ret) = "abort"
               THEN /\ log' = log \o l \o <<Rec("ERROR", "Aborting...", "")>>
                    /\ pc' = "exited"
                    /\ outcome' = "sys_exit"
                    /\ exitStatus' = SysExitNoArg
               ELSE /\ log' = log \o l
                    /\ pc' = "fetch_map_manifest"
                    /\ UNCHANGED <<outcome, exitStatus>>
    /\ UNCHANGED <<args, info_dir, next_tmp, host, app_info, returncode,
                   fetch_ret, reads, inflight, exc>>

\* fetch_map_manifest(map_name) up to the blocking run_cmd: a fresh temporary
\* directory is created and the manifest-export container run is started
\* with the directory bound to the export path.
fetch_map_manifest_enter ==
    /\ next_tmp <= Len(TmpNames)
    /\ LET d == TmpNames[next_tmp] IN
        /\ info_dir' = d
        /\ host' = [x \in (DOMAIN host) \cup {d} |-> IF x = d THEN EmptyDir ELSE host[x]]
        /\ calls' = Append(calls, Call("run_cmd", "fetch_map_manifest", args.map,
                                       << <<d, ExportConfigPath>> >>))
    /\ next_tmp' = next_tmp + 1
    /\ entered' = Append(entered, "fetch_map_manifest")
    /\ log' = log \o Emitted(args.verbose,
                     <<Rec("INFO", "Reading MONAI App Package manifest...", "")>>)
    /\ inflight' = inflight \cup {"fetch_map_manifest"}

\* The files of the export directory after a container run that wrote app
\* and pkg into it: a file the run did not write is as it was before.
container_writes(before, app, pkg) ==
    [app |-> IF app.exists THEN app ELSE before.app,
     pkg |-> IF pkg.exists THEN pkg ELSE before.pkg]

\* fetch_map_manifest that reads pkg.json for the debug log only in verbose
\* mode (if verbose: logging.debug(pkg_json.read_text())).
fetch_map_manifest_result_verbose_only(rc, app, pkg) ==
    IF args.verbose
    THEN fetch_after_run(run_cmd(rc), container_writes(host[info_dir], app, pkg))
    ELSE fetch_after_run_pkg_unread(run_cmd(rc),
                                    container_writes(host[info_dir], app, pkg))

\* fetch_map_manifest from the return of run_cmd to the end of the function,
\* the run having returned rc and written app and pkg: what the function
\* reads is what the export directory then holds.
fetch_map_manifest_result(rc, app, pkg) ==
    fetch_after_run(run_cmd(rc), container_writes(host[info_dir], app, pkg))

\* The effects of fetch_map_manifest after run_cmd returned, r being what
\* the function does with the files: the reads are made and the with-block
\* is left.
fetch_map_manifest_leave(rc, app, pkg, r) ==
    /\ env' = [env EXCEPT !.manifest_exit = rc,
                          !.files = [app |-> app, pkg |-> pkg]]
    /\ host' = TemporaryDirectory_exit(
                  [host EXCEPT ![info_dir] = container_writes(host[info_dir], app, pkg)],
                  info_dir, r.exc # "")
    /\ reads' = reads \o r.reads
    /\ info_dir' = ""
    /\ inflight' = inflight \ {"fetch_map_manifest"}

\* main() going on to run_app without waiting for the manifest-export run
\* it started.
FetchStart_not_blocking ==
    /\ pc = "fetch_map_manifest"
    /\ fetch_map_manifest_enter
    /\ pc' = "run_app"
    /\ UNCHANGED <<args, env, dv_ret, app_info, returncode, fetch_ret, reads,
                   exc, outcome, exitStatus>>

\* main() calls fetch_map_manifest(args.map), which blocks in run_cmd.
FetchStart ==
    /\ pc = "fetch_map_manifest"
    /\ fetch_map_manifest_enter
    /\ pc' = "manifest_run"
    /\ UNCHANGED <<args, env, dv_ret, app_info, returncode, fetch_ret, reads,
                   exc, outcome, exitStatus>>

\* The manifest-export run ends with return code rc, having written the
\* files app and pkg; fetch_map_manifest runs to its end and main() tests the
\* return code.
ManifestRunExit ==
    /\ pc = "manifest_run"
    /\ \E rc \in ReturnCodes, app \in AppJsonFiles, pkg \in PkgJsonFiles :
        LET r == fetch_map_manifest_result(rc, app, pkg)
            l == Emitted(args.verbose, r.log)
        IN  /\ fetch_map_manifest_leave(rc, app, pkg, r)
            /\ IF r.exc # ""
               THEN /\ exc' = r.exc
                    /\ log' = log \o l \o <<Rec("TRACEBACK", r.exc, "")>>
                    /\ pc' = "exited"
                    /\ outcome' = "exception"
                    /\ exitStatus' = UncaughtException
                    /\ UNCHANGED <<app_info, returncode, fetch_ret>>
               ELSE /\ app_info' = r.app_info
                    /\ returncode' = r.returncode
                    /\ fetch_ret' = r.returncode
                    /\ exc' = exc
                    /\ IF main_after_fetch(r.returncode) = "abort"
                       THEN /\ log' = log \o l \o
                                <<Rec("ERROR", "ERROR: Failed to fetch MAP manifest. Aborting...", "")>>
                            /\ pc' = "exited"
                            /\ outcome' = "sys_exit"
                            /\ exitStatus' = SysExitNoArg
                       ELSE /\ log' = log \o l
                            /\ pc' = "run_app"
                            /\ UNCHANGED <<outcome, exitStatus>>
    /\ UNCHANGED <<args, dv_ret, next_tmp, entered, calls>>

\* run_app taking the two entries out of the manifest (dict.pop) while it
\* builds the command.
RunApp_pops_manifest ==
    /\ pc = "run_app"
    /\ entered' = Append(entered, "run_app")
    /\ app_info' = EmptyDict
    /\ LET b == run_app_cmd(args.map, args.input_dir, args.output_dir, app_info,
                            args.quiet)
       IN  IF b.exc # ""
           THEN /\ exc' = b.exc
                /\ log' = Append(log, Rec("TRACEBACK", b.exc, ""))
                /\ pc' = "exited"
                /\ outcome' = "exception"
                /\ exitStatus' = UncaughtException
                /\ UNCHANGED <<calls, inflight>>
           ELSE /\ calls' = Append(calls, b.cmd)
                /\ inflight' = inflight \cup {"run_app"}
                /\ pc' = "app_run"
                /\ UNCHANGED <<exc, log, outcome, exitStatus>>
    /\ UNCHANGED <<args, env, dv_ret, info_dir, next_tmp, host,
                   returncode, fetch_ret, reads>>

\* run_app(...) up to the blocking run_cmd / run_cmd_quietly: the command is
\* built from the manifest and the application container run is started.
RunApp ==
    /\ pc = "run_app"
    /\ entered' = Append(entered, "run_app")
    /\ LET b == run_app_cmd(args.map, args.input_dir, args.output_dir, app_info,
                            args.quiet)
       IN  IF b.exc # ""
           THEN /\ exc' = b.exc
                /\ log' = Append(log, Rec("TRACEBACK", b.exc, ""))
                /\ pc' = "exited"
                /\ outcome' = "exception"
                /\ exitStatus' = UncaughtException
                /\ UNCHANGED <<calls, inflight>>
           ELSE /\ calls' = Append(calls, b.cmd)
                /\ inflight' = inflight \cup {"run_app"}
                /\ pc' = "app_run"
                /\ UNCHANGED <<exc, log, outcome, exitStatus>>
    /\ UNCHANGED <<args, env, dv_ret, info_dir, next_tmp, host, app_info,
                   returncode, fetch_ret, reads>>

\* main() running the application again after a non-zero return code, once.
AppRunExit_retries ==
    /\ pc = "app_run"
    /\ \E rc \in ReturnCodes :
        LET ret == run_app_returncode(args.quiet, rc) IN
        /\ env' = [env EXCEPT !.app_exit = rc]
        /\ returncode' = ret
        /\ IF main_after_run_app(ret) = "abort"
           THEN IF Len(entered) < 5
                THEN /\ pc' = "run_app"
                     /\ UNCHANGED <<log, outcome, exitStatus>>
                ELSE /\ log' = Append(log, Rec("ERROR", "ERROR: MONAI Application failed.", args.map))
                     /\ pc' = "exited"
                     /\ outcome' = "sys_exit"
                     /\ exitStatus' = SysExitNoArg
           ELSE /\ log' = log
                /\ pc' = "exited"
                /\ outcome' = "completed"
                /\ exitStatus' = NormalExit
    /\ inflight' = inflight \ {"run_app"}
    /\ UNCHANGED <<args, dv_ret, info_dir, next_tmp, host, app_info, fetch_ret,
                   entered, calls, reads, exc>>

\* The application run ends with return code rc; run_app returns and main()
\* tests the return code.
AppRunExit ==
    /\ pc = "app_run"
    /\ \E rc \in ReturnCodes :
        LET ret == run_app_returncode(args.quiet, rc) IN
        /\ env' = [env EXCEPT !.app_exit = rc]
        /\ returncode' = ret
        /\ IF main_after_run_app(ret) = "abort"
           THEN /\ log' = Append(log, Rec("ERROR", "ERROR: MONAI Application failed.", args.map))
                /\ outcome' = "sys_exit"
                /\ exitStatus' = SysExitNoArg
           ELSE /\ log' = log
                /\ outcome' = "completed"
                /\ exitStatus' = NormalExit
    /\ pc' = "exited"
    /\ inflight' = inflight \ {"run_app"}
    /\ UNCHANGED <<args, dv_ret, info_dir, next_tmp, host, app_info, fetch_ret,
                   entered, calls, reads, exc>>

Next ==
    \/ ParseArgs
    \/ DependencyVerification
    \/ FetchStart
    \/ ManifestRunExit
    \/ RunApp
    \/ AppRunExit

Spec == Init /\ [][Next]_vars

\* ------------------------------------- fetch_map_manifest called in sequence
\* A caller that calls fetch_map_manifest(map_name) several times in
\* sequence with the same package reference, on a host that already holds
\* a directory of its own, and goes on after a call that raised.
PreexistingHost ==
    "/tmp/other" :> [app |-> File(DocNoOutput), pkg |-> File(DocEmptyObject)]

\* What the manifest-export runs of these calls may write as app.json.
SequenceAppJsonFiles ==
    {NoFile, File(DocScenarioA), File(DocOutputFirst), File(DocTruncated)}

InitSequence ==
    /\ pc = "call_fetch"
    /\ \E m \in Images, v \in BOOLEAN :
          args = [NoArgs EXCEPT !.map = m, !.verbose = v]
    /\ env = NoEnv
    /\ dv_ret = "unset"
    /\ info_dir = ""
    /\ next_tmp = 1
    /\ host = PreexistingHost
    /\ app_info = EmptyDict
    /\ returncode = Unset
    /\ fetch_ret = Unset
    /\ entered = <<>>
    /\ calls = <<>>
    /\ reads = <<>>
    /\ inflight = {}
    /\ log = <<>>
    /\ exc = ""
    /\ outcome = "running"
    /\ exitStatus = Unset

\* The caller calls fetch_map_manifest(args.map), which blocks in run_cmd.
CallFetch ==
    /\ pc = "call_fetch"
    /\ Len(entered) < MaxFetchCalls
    /\ fetch_map_manifest_enter
    /\ pc' = "fetch_running"
    /\ UNCHANGED <<args, env, dv_ret, app_info, returncode, fetch_ret, reads,
                   exc, outcome, exitStatus>>

\* The manifest-export run ends and fetch_map_manifest returns its pair to
\* the caller, or raises.
FetchReturns ==
    /\ pc = "fetch_running"
    /\ \E rc \in ReturnCodes, app \in SequenceAppJsonFiles, pkg \in PkgJsonFiles :
        LET r == fetch_map_manifest_result(rc, app, pkg) IN
        /\ fetch_map_manifest_leave(rc, app, pkg, r)
        /\ log' = log \o Emitted(args.verbose, r.log)
        /\ exc' = r.exc
        /\ IF r.exc # ""
           THEN UNCHANGED <<app_info, fetch_ret>>
           ELSE /\ app_info' = r.app_info
                /\ fetch_ret' = r.returncode
    /\ pc' = "call_fetch"
    /\ UNCHANGED <<args, dv_ret, next_tmp, returncode, entered, calls, outcome,
                   exitStatus>>

NextSequence ==
    \/ CallFetch
    \/ FetchReturns

SpecSequence == InitSequence /\ [][NextSequence]_vars

\* ------------------------------------------------------- pipeline state
\* The state of the pipeline, from what main() has observed so far.
PipelineState ==
    IF outcome = "completed" THEN "EXECUTED"
    ELSE IF outcome # "running" THEN "FAILED"
    ELSE IF fetch_ret = 0 THEN "MANIFESTED"
    ELSE IF dv_ret = "True" THEN "VERIFIED"
    ELSE "START"

\* The container runs started so far.
ManifestRunStarted == \E k \in DOMAIN calls : calls[k].by = "fetch_map_manifest"
AppRunStarted == \E k \in DOMAIN calls : calls[k].by = "run_app"
AppRunCalls == {k \in DOMAIN calls : calls[k].by = "run_app"}

\* The manifest lacks input.path or output.path.
LacksPaths(info) ==
    \/ GetItem(info, "input").exc # ""
    \/ GetItem(GetItem(info, "input").val, "path").exc # ""
    \/ GetItem(info, "output").exc # ""
    \/ GetItem(GetItem(info, "output").val, "path").exc # ""

\* ------------------------------------------------------------------ claims
\* One of the failures of the pipeline was observed in this invocation.
PipelineFailed ==
    \/ env.docker = "no"
    \/ env.image = "no"
    \/ env.manifest_exit \notin {Unset, 0}
    \/ exc = "JSONDecodeError"
    \/ env.app_exit \notin {Unset, 0}

AllStagesSucceeded == dv_ret = "True" /\ fetch_ret = 0 /\ env.app_exit = 0

\* C1: once the process has ended, its exit status is non-zero whenever the
\* runtime was missing, the image unavailable, the manifest run or the
\* application run returned non-zero or the manifest did not parse, and it is
\* zero only when verification, manifest fetch and application run succeeded.
C1_ExitStatusReflectsFailure ==
    pc = "exited" =>
        /\ PipelineFailed => exitStatus # 0
        /\ exitStatus = 0 => AllStagesSucceeded

StageOrder ==
    {<<"START", "VERIFIED">>, <<"VERIFIED", "MANIFESTED">>,
     <<"MANIFESTED", "EXECUTED">>, <<"START", "FAILED">>,
     <<"VERIFIED", "FAILED">>, <<"MANIFESTED", "FAILED">>}

NoDuplicates(q) == \A a, b \in DOMAIN q : q[a] = q[b] => a = b

\* C2: the pipeline state only steps START -> VERIFIED -> MANIFESTED ->
\* EXECUTED or into FAILED; the manifest run starts only after
\* dependency_verification returned True, the application run only after
\* fetch_map_manifest returned 0; nothing starts once FAILED is entered and
\* no stage is entered twice.
C2_PipelineOrder ==
    /\ [](ManifestRunStarted => dv_ret = "True")
    /\ [](AppRunStarted => dv_ret = "True" /\ fetch_ret = 0)
    /\ [](NoDuplicates(entered))
    /\ [][PipelineState' = PipelineState
          \/ <<PipelineState, PipelineState'>> \in StageOrder]_vars
    /\ [][PipelineState = "FAILED" =>
            calls' = calls /\ entered' = entered /\ inflight' = inflight]_vars

\* The pipeline ran through all its states.
C2_Witness ==
    /\ PipelineState = "EXECUTED"
    /\ entered = <<"parse_args", "dependency_verification", "fetch_map_manifest", "run_app">>

\* C3: when docker is not on the search path, dependency_verification returns
\* False without the image check, and the launcher ends without starting the
\* manifest run or the application run.
C3_RuntimeAbsent ==
    env.docker = "no" =>
        /\ dv_ret = "False"
        /\ \A k \in DOMAIN calls : calls[k].op = "which"
        /\ "fetch_map_manifest" \notin {entered[k] : k \in DOMAIN entered}
        /\ "run_app" \notin {entered[k] : k \in DOMAIN entered}
        /\ inflight = {}
        /\ pc = "exited"

\* docker is missing on a host where the image would have been available.
C3_Witness ==
    /\ env.docker = "no"
    /\ env.image = "yes"
    /\ args.map = "map:b"
    /\ pc = "exited"

\* C4: when docker is present and verify_image is falsy,
\* dependency_verification returns False and fetch_map_manifest is never
\* called.
C4_ImageUnavailable ==
    (env.docker = "yes" /\ env.image = "no") =>
        /\ dv_ret = "False"
        /\ "fetch_map_manifest" \notin {entered[k] : k \in DOMAIN entered}
        /\ ~ManifestRunStarted
        /\ pc = "exited"

\* The image check was made and failed.
C4_Witness ==
    /\ env.docker = "yes"
    /\ env.image = "no"
    /\ \E k \in DOMAIN calls : calls[k].op = "verify_image" /\ calls[k].image = args.map
    /\ pc = "exited"

\* C5: when the manifest run returns a non-zero code c, fetch_map_manifest
\* returns the empty manifest and c without reading app.json or pkg.json, and
\* the launcher ends without calling run_app.
C5_ManifestRunFailed ==
    env.manifest_exit \notin {Unset, 0} =>
        /\ fetch_ret = env.manifest_exit
        /\ returncode = env.manifest_exit
        /\ app_info.t = "obj" /\ DOMAIN app_info.m = {}
        /\ reads = <<>>
        /\ "run_app" \notin {entered[k] : k \in DOMAIN entered}
        /\ ~AppRunStarted
        /\ outcome = "sys_exit"

\* The manifest run failed after it had written both manifest files.
C5_Witness ==
    /\ env.manifest_exit = 2
    /\ env.files.app = File(DocScenarioA)
    /\ env.files.pkg.exists
    /\ pc = "exited"

\* C6: the temporary export directory exists only while control is inside
\* fetch_map_manifest: it is gone on every exit path of the function, and
\* so before run_app and at the end of the process.
C6_TmpDirRemoved ==
    /\ pc # "manifest_run" => DOMAIN host = {} /\ info_dir = ""
    /\ AppRunStarted => DOMAIN host = {}

\* fetch_map_manifest created its directory and left by an exception.
C6_Witness ==
    /\ next_tmp = 2
    /\ exc = "JSONDecodeError"
    /\ env.files.pkg.exists
    /\ pc = "exited"

\* C7: for a manifest without input.path or output.path, run_app is not
\* called and no application container run is started.
C7_ExecutorNotInvoked ==
    (fetch_ret = 0 /\ LacksPaths(app_info)) =>
        /\ "run_app" \notin {entered[k] : k \in DOMAIN entered}
        /\ ~AppRunStarted

\* A manifest data error after a manifest run that returned 0: a manifest
\* file that cannot be read, malformed JSON, or a missing path field.
ManifestDataError ==
    /\ env.manifest_exit = 0
    /\ \/ ~env.files.app.exists
       \/ ~json_loads(env.files.app.text).ok
       \/ LacksPaths(json_loads(env.files.app.text).val)

\* The records main() logs for a container run that returned non-zero.
ExecutionErrorTexts ==
    {"ERROR: Failed to fetch MAP manifest. Aborting...",
     "ERROR: MONAI Application failed."}

\* C8: a manifest data error after a zero-exit manifest run is not taken as
\* success, and once the process has ended it has been reported by an error
\* record of its own, not by the record of a failed container run.
C8_ManifestErrorNamed ==
    (ManifestDataError /\ pc = "exited") =>
        /\ outcome # "completed"
        /\ ~AppRunStarted
        /\ \E k \in DOMAIN log :
              log[k].level = "ERROR" /\ log[k].text \notin ExecutionErrorTexts
                                     /\ log[k].text # "Aborting..."

\* C9: the return code run_app returned is the one it returns in the other
\* quiet mode for the same container exit code, and the launcher ends in
\* the state the other mode ends in.
C9_QuietSameReturnCode ==
    (pc = "exited" /\ env.app_exit # Unset) =>
        /\ returncode = run_app_returncode(~args.quiet, env.app_exit)
        /\ returncode = env.app_exit
        /\ (PipelineState = "EXECUTED")
              = (main_after_run_app(run_app_returncode(~args.quiet, env.app_exit)) = "continue")

\* A quiet application run ended with a non-zero return code.
C9_Witness ==
    /\ pc = "exited"
    /\ args.quiet
    /\ env.app_exit = 1
    /\ calls[Len(calls)].op = "run_cmd_quietly"

\* The manifest parsed from the app.json the manifest run wrote.
ParsedManifest == json_loads(env.files.app.text).val

\* C10: the application run is started with exactly two volume bindings,
\* input_dir to the manifest's input.path and output_dir to its output.path,
\* the manifest being the one parsed from app.json in this invocation and
\* the image the package reference of the command line; with the manifest
\* of scenario A the bindings are to /in and /out; when all stages succeed
\* the launcher exits 0.
C10_VolumeBindings ==
    /\ AppRunStarted =>
          /\ Cardinality(AppRunCalls) = 1
          /\ app_info = ParsedManifest
          /\ \A k \in AppRunCalls :
                /\ calls[k].image = args.map
                /\ Len(calls[k].volumes) = 2
                /\ calls[k].volumes[1] =
                      <<args.input_dir,
                        py_str(GetItem(GetItem(ParsedManifest, "input").val, "path").val)>>
                /\ calls[k].volumes[2] =
                      <<args.output_dir,
                        py_str(GetItem(GetItem(ParsedManifest, "output").val, "path").val)>>
                /\ env.files.app.text = DocScenarioA =>
                      calls[k].volumes = << <<args.input_dir, "/in">>,
                                            <<args.output_dir, "/out">> >>
    /\ (pc = "exited" /\ AllStagesSucceeded) =>
          AppRunStarted /\ outcome = "completed" /\ exitStatus = 0

\* Scenario A ran to its end with distinct host directories.
C10_Witness ==
    /\ outcome = "completed"
    /\ env.files.app.text = DocScenarioA
    /\ args.input_dir = "/host/in"
    /\ args.output_dir = "/host/out"
    /\ exitStatus = 0

\* The container runs of each stage started so far.
ManifestRunCalls == {k \in DOMAIN calls : calls[k].by = "fetch_map_manifest"}

ContainerRuns == {k \in DOMAIN calls : calls[k].op \in {"run_cmd", "run_cmd_quietly"}}

\* C11: in one invocation the manifest-export run is started at most once
\* and the application run at most once, whatever the return codes; a
\* non-zero return code ends the process with no further run.
C11_NoRetry ==
    /\ Cardinality(ManifestRunCalls) <= 1
    /\ Cardinality(AppRunCalls) <= 1
    /\ Cardinality(ContainerRuns) <= 2
    /\ (env.manifest_exit \notin {Unset, 0} \/ env.app_exit \notin {Unset, 0}) =>
          pc = "exited" /\ inflight = {}

\* Both runs were made and the application run returned non-zero.
C11_Witness ==
    /\ Cardinality(ManifestRunCalls) = 1
    /\ Cardinality(AppRunCalls) = 1
    /\ env.app_exit = 2
    /\ pc = "exited"

\* The command line named an input or output directory that is not an
\* existing directory.
InvalidDirectoryArgument ==
    /\ Len(env.argv) = 3
    /\ ~valid_dir_path(env.argv[2]) \/ ~valid_dir_path(env.argv[3])

\* C12: with an invalid input or output directory argument parsing fails
\* and the process ends before the pipeline starts: dependency
\* verification, manifest fetch and application run are never invoked.
C12_InvalidDirectoryStopsBeforePipeline ==
    InvalidDirectoryArgument =>
        /\ pc = "exited"
        /\ outcome = "usage_error"
        /\ exitStatus = ArgparseError
        /\ entered = <<"parse_args">>
        /\ calls = <<>>
        /\ dv_ret = "unset"
        /\ fetch_ret = Unset
        /\ DOMAIN host = {}

\* A valid input directory with an output path that is a file.
C12_Witness ==
    /\ Len(env.argv) = 3
    /\ env.argv[2] = "/host/in"
    /\ env.argv[3] = "/host/file.txt"
    /\ pc = "exited"

\* The container runs that have returned.
ReturnedRuns ==
    (IF env.manifest_exit # Unset THEN 1 ELSE 0) + (IF env.app_exit # Unset THEN 1 ELSE 0)

\* C13: at most one container run is in flight; while one is, main() is
\* blocked in it; every run started before it has returned, and the
\* application run is in flight only after the manifest run returned and its
\* return code was observed to be 0.
C13_OneRunInFlight ==
    /\ Cardinality(inflight) <= 1
    /\ ("fetch_map_manifest" \in inflight) = (pc = "manifest_run")
    /\ ("run_app" \in inflight) = (pc = "app_run")
    /\ Cardinality(ContainerRuns) = ReturnedRuns + Cardinality(inflight)
    /\ "run_app" \in inflight =>
          /\ env.manifest_exit = 0
          /\ fetch_ret = 0
          /\ returncode = 0

\* The application run is in flight.
C13_Witness ==
    /\ inflight = {"run_app"}
    /\ Cardinality(ContainerRuns) = 2
    /\ env.manifest_exit = 0

\* The record at k reports a failure on the console.
IsErrorMessage(k) == log[k].level \in {"ERROR", "USAGE", "TRACEBACK"}

\* Some ERROR record names the stage (by its text) and the image.
ReportedWithImage(text) ==
    \E k \in DOMAIN log :
        log[k].level = "ERROR" /\ log[k].text = text /\ log[k].arg = args.map

\* C14: every failure path has emitted an error message when the process
\* ends, and every non-zero container run, manifest-export run or
\* application run, is reported by a message that names the stage and the
\* package image.
C14_FailuresReported ==
    (pc = "exited" /\ outcome # "completed") =>
        /\ \E k \in DOMAIN log : IsErrorMessage(k)
        /\ env.manifest_exit \notin {Unset, 0} =>
              ReportedWithImage("ERROR: Failed to fetch MAP manifest. Aborting...")
        /\ env.app_exit \notin {Unset, 0} =>
              ReportedWithImage("ERROR: MONAI Application failed.")

\* What fetch_map_manifest does with the files and the return code of the
\* last manifest-export run alone.
LastRunAlone == fetch_after_run(run_cmd(env.manifest_exit), env.files)

\* C15: fetch_map_manifest called in sequence with the same package
\* reference: each call binds a temporary directory of its own, which is
\* empty when the run starts; once the second call has ended the host is as
\* it was before the first, and what the call returned or raised is what
\* the files and the return code of its own run give.
C15_FetchSequenceIdempotent ==
    /\ \A a, b \in DOMAIN calls :
          calls[a].volumes[1][1] = calls[b].volumes[1][1] => a = b
    /\ \A k \in DOMAIN calls : calls[k].image = args.map
    /\ pc = "fetch_running" => host[info_dir] = EmptyDir
    /\ (pc = "call_fetch" /\ Len(entered) >= 2) =>
          /\ host = PreexistingHost
          /\ exc = LastRunAlone.exc
          /\ exc = "" =>
                /\ fetch_ret = LastRunAlone.returncode
                /\ app_info = LastRunAlone.app_info

\* The first call read both manifest files; the second run returned 0 and
\* wrote no app.json, and the second call found none.
C15_Witness ==
    /\ pc = "call_fetch"
    /\ Len(entered) = 2
    /\ env.manifest_exit = 0
    /\ ~env.files.app.exists
    /\ exc = "FileNotFoundError"
    /\ reads = <<"app.json", "pkg.json", "app.json", "app.json">>

\* C16: run_app leaves the manifest as it was passed in, in both quiet
\* modes, whether it returns or raises, and the manifest held by main() is
\* written once, by the return of fetch_map_manifest.
C16_ManifestReadOnly ==
    /\ [][(pc = "run_app" \/ pc = "app_run") => app_info' = app_info]_vars
    /\ [][fetch_ret # Unset => app_info' = app_info]_vars
    /\ [][app_info' # app_info =>
            pc = "manifest_run" /\ fetch_ret = Unset /\ fetch_ret' = 0]_vars
    /\ [](AppRunStarted => app_info = ParsedManifest)

\* A quiet application run returned with the manifest main() passed in.
C16_Witness ==
    /\ pc = "exited"
    /\ args.quiet
    /\ env.app_exit = 1
    /\ env.files.app.text = DocOutputFirst
    /\ app_info = json_loads(DocOutputFirst).val

\* The manifest run returned 0 and wrote an app.json that parses and has
\* both paths, and no pkg.json.
ValidAppJsonWithoutPkgJson ==
    /\ env.manifest_exit = 0
    /\ env.files.app.exists
    /\ json_loads(env.files.app.text).ok
    /\ ~LacksPaths(json_loads(env.files.app.text).val)
    /\ ~env.files.pkg.exists

\* C17: the application run is started only after app.json and pkg.json
\* were both read from the export directory; after a manifest run that
\* returned 0 with a valid app.json and no pkg.json, fetch_map_manifest
\* raises and the application run is never started.
C17_PkgJsonReadBeforeRun ==
    /\ ("run_app" \in {entered[k] : k \in DOMAIN entered}) =>
          /\ reads = <<"app.json", "pkg.json", "app.json">>
          /\ env.files.app.exists
          /\ env.files.pkg.exists
    /\ ValidAppJsonWithoutPkgJson =>
          /\ exc = "FileNotFoundError"
          /\ reads = <<"app.json", "pkg.json">>
          /\ fetch_ret = Unset
          /\ "run_app" \notin {entered[k] : k \in DOMAIN entered}
          /\ ~AppRunStarted
          /\ pc = "exited"
          /\ outcome = "exception"

\* Scenario A's app.json was written without a pkg.json.
C17_Witness ==
    /\ ValidAppJsonWithoutPkgJson
    /\ env.files.app.text = DocScenarioA
    /\ pc = "exited"

\* What an invocation does, told from the command line without -v and from
\* the environment alone: the external invocations, the files read and the
\* way the process ends.
ManifestUsable ==
    /\ env.manifest_exit = 0
    /\ env.files.app.exists
    /\ env.files.pkg.exists
    /\ json_loads(env.files.app.text).ok
    /\ ~LacksPaths(ParsedManifest)

FlowCalls ==
    LET which == Call("which", "dependency_verification", "", <<>>)
        image == Call("verify_image", "dependency_verification", args.map, <<>>)
        fetch == Call("run_cmd", "fetch_map_manifest", args.map,
                      << <<TmpNames[1], ExportConfigPath>> >>)
        app   == Call(IF args.quiet THEN "run_cmd_quietly" ELSE "run_cmd", "run_app",
                      args.map,
                      << <<args.input_dir,
                           py_str(GetItem(GetItem(ParsedManifest, "input").val, "path").val)>>,
                         <<args.output_dir,
                           py_str(GetItem(GetItem(ParsedManifest, "output").val, "path").val)>> >>)
    IN  IF InvalidDirectoryArgument THEN <<>>
        ELSE IF env.docker = "no" THEN <<which>>
        ELSE IF env.image = "no" THEN <<which, image>>
        ELSE IF ManifestUsable THEN <<which, image, fetch, app>>
        ELSE <<which, image, fetch>>

FlowReads ==
    IF env.manifest_exit # 0 THEN <<>>
    ELSE IF ~env.files.app.exists THEN <<"app.json">>
    ELSE IF ~env.files.pkg.exists THEN <<"app.json", "pkg.json">>
    ELSE <<"app.json", "pkg.json", "app.json">>

FlowOutcome ==
    IF InvalidDirectoryArgument THEN "usage_error"
    ELSE IF env.docker = "no" \/ env.image = "no" THEN "sys_exit"
    ELSE IF env.manifest_exit # 0 THEN "sys_exit"
    ELSE IF ~ManifestUsable THEN "exception"
    ELSE IF env.app_exit # 0 THEN "sys_exit"
    ELSE "completed"

\* C18: -v does not change the control flow: once the process has ended,
\* the external invocations made, the files read and the final pipeline
\* state are those the command line without -v and the environment give,
\* so they are the same with and without -v.
C18_VerboseSameFlow ==
    pc = "exited" =>
        /\ calls = FlowCalls
        /\ reads = FlowReads
        /\ outcome = FlowOutcome
        /\ PipelineState = (IF FlowOutcome = "completed" THEN "EXECUTED" ELSE "FAILED")

\* Without -v, a manifest run that returned 0 and wrote app.json and no
\* pkg.json: both files were still read.
C18_Witness ==
    /\ pc = "exited"
    /\ Len(env.argv) = 3
    /\ ~args.verbose
    /\ env.manifest_exit = 0
    /\ ~env.files.pkg.exists
    /\ reads = <<"app.json", "pkg.json">>
    /\ \A k \in DOMAIN log : log[k].level # "DEBUG"

====
